---- MODULE Spec2Model ----
(***************************************************************************)
(* A model of src/main.rs: an in-memory hash chain.  A Blockchain owns its *)
(* tail block; every block owns its predecessor together with the hash of  *)
(* that predecessor computed when the two were linked.  add() links and    *)
(* mines a new tail, verify_chain() walks the chain from the tail and      *)
(* compares each recomputed hash with the cached one.                      *)
(*                                                                         *)
(* Option<T> is modelled as a sequence of length at most one: None is <<>> *)
(* and Some(x) is <<x>>.  The pair (Box<Block>, String) is a 2-tuple.      *)
(* SHA-256 and base64 are scaled down: the digest is a number below        *)
(* DigestSpace, absorbed symbol by symbol in the order hash_block feeds    *)
(* the hasher, and rendered as DigestChars characters followed by the      *)
(* padding character, as base64 renders 32 bytes as 43 characters and "=". *)
(***************************************************************************)
EXTENDS Integers, Sequences, FiniteSets

VARIABLES
    tail,        \* Blockchain.tail : Option<Box<Block>>
    difficulty,  \* Blockchain.difficulty : usize
    status,      \* "running", or how the process stopped inside mine_block
    result,      \* the value returned by verify_chain if it was the last call
    added,       \* history: the arguments of the add calls, oldest first
    linked,      \* history: the predecessor link the last add constructed
    tampers,     \* history: the number of in-place field writes so far
    last         \* history: the last in-place write and the value it replaced

vars == <<tail, difficulty, status, result, added, linked, tampers, last>>

----------------------------------------------------------------------------
(* Bounds of the model *)

MaxBlocks == 3
MaxDifficulty == 3
MaxTampers == 2
DigestChars == 2
NonceBytes == 2

(* Inputs *)

Transactions == {"a", "b"}
Timestamps == {1, 2}

----------------------------------------------------------------------------
(* Option *)

None == <<>>
Some(x) == <<x>>
IsSome(o) == o # <<>>

Min(a, b) == IF a < b THEN a ELSE b

----------------------------------------------------------------------------
(* Encoding of digests: a scaled-down base64 *)

Alphabet == <<"A", "a", "0", "+">>
Pad == "="
Base == Len(Alphabet)
DigestSpace == Base ^ DigestChars
NonceLimit == Base ^ NonceBytes

\* the byte fed to the hasher for each character of a hash string
CharCodes ==
    [c \in {Alphabet[i] : i \in 1 .. Base} \cup {Pad} |->
        IF c = Pad THEN Base
        ELSE CHOOSE i \in 0 .. (Base - 1) : Alphabet[i + 1] = c]

CharCode(c) == CharCodes[c]

\* the text of each digest: its digits, most significant first, then padding
Encoded ==
    [digest \in 0 .. (DigestSpace - 1) |->
        [i \in 1 .. DigestChars |->
            Alphabet[((digest \div (Base ^ (DigestChars - i))) % Base) + 1]]
        \o <<Pad>>]

encode(digest) == Encoded[digest]

to_le_bytes(n) == [i \in 1 .. NonceBytes |-> (n \div (Base ^ (i - 1))) % Base]

TxBytes(transaction) ==
    IF transaction = "a" THEN <<1>>
    ELSE IF transaction = "b" THEN <<2>>
    ELSE <<3>>

StrBytes(s) == [i \in 1 .. Len(s) |-> CharCode(s[i])]

RECURSIVE update(_, _)
update(state, bytes) ==
    IF bytes = <<>> THEN state
    ELSE update((state * 5 + Head(bytes) + 1) % DigestSpace, Tail(bytes))

----------------------------------------------------------------------------
(* Blocks *)

NewBlock_unlinked(prev, timestamp, transaction) ==
    [prev |-> None, timestamp |-> timestamp,
     transaction |-> transaction, nonce |-> 0]

NewBlock(prev, timestamp, transaction) ==
    [prev |-> prev, timestamp |-> timestamp,
     transaction |-> transaction, nonce |-> 0]

hash_block(block) ==
    LET h0 == IF IsSome(block.prev)
              THEN update(0, StrBytes(block.prev[1][2]))
              ELSE 0
        h1 == update(h0, <<block.timestamp>>)
        h2 == update(h1, TxBytes(block.transaction))
        h3 == update(h2, to_le_bytes(block.nonce))
    IN  encode(h3)

check_hash_one_more(hash, d) ==
    \A i \in 1 .. Min(d + 1, Len(hash)) : hash[i] = "0"

check_hash(hash, d) ==
    \A i \in 1 .. Min(d, Len(hash)) : hash[i] = "0"

RECURSIVE mine_loop_past(_, _)
mine_loop_past(block, d) ==
    IF check_hash(hash_block(block), d)
    THEN [outcome |-> "mined",
          block |-> [block EXCEPT !.nonce = (@ + 1) % NonceLimit]]
    ELSE IF block.nonce = NonceLimit - 1
         THEN [outcome |-> "overflow", block |-> block]
         ELSE mine_loop_past([block EXCEPT !.nonce = @ + 1], d)

RECURSIVE mine_loop(_, _)
mine_loop(block, d) ==
    IF check_hash(hash_block(block), d)
    THEN [outcome |-> "mined", block |-> block]
    ELSE IF block.nonce = NonceLimit - 1
         THEN [outcome |-> "overflow", block |-> block]
         ELSE mine_loop([block EXCEPT !.nonce = @ + 1], d)

mine_block_unmined(block, d) ==
    [outcome |-> "mined", block |-> [block EXCEPT !.nonce = 0]]

mine_block_from_one(block, d) ==
    mine_loop([block EXCEPT !.nonce = 1 % NonceLimit], d)

mine_block(block, d) == mine_loop([block EXCEPT !.nonce = 0], d)

RECURSIVE successors(_)
successors(first) ==
    IF first = None THEN <<>>
    ELSE <<first[1]>> \o
         successors(IF IsSome(first[1].prev)
                    THEN Some(first[1].prev[1][1])
                    ELSE None)

iter(t) == successors(t)

DebugBlock(block) ==
    [prev |-> IF IsSome(block.prev) THEN Some(block.prev[1][2]) ELSE None,
     timestamp |-> block.timestamp,
     transaction |-> block.transaction]

----------------------------------------------------------------------------
(* verify_chain *)

NoResult == [kind |-> "none"]
Ok == [kind |-> "Ok"]
Panic == [kind |-> "Panic"]
HashMismatch(expected, h, next) ==
    [kind |-> "HashMismatch", expected |-> expected, h |-> h,
     context |-> Some(DebugBlock(next))]
InvalidHash(h, next) ==
    [kind |-> "InvalidHash", h |-> h, context |-> Some(DebugBlock(next))]

RECURSIVE try_fold_keeps_next(_, _, _)
try_fold_keeps_next(blocks, next, d) ==
    IF blocks = <<>> THEN Ok
    ELSE LET prev == Head(blocks) IN
         IF next = None \/ next[1].prev = None THEN Panic
         ELSE LET expected_hash == next[1].prev[1][2]
                  h == hash_block(prev)
              IN  IF h # expected_hash
                  THEN HashMismatch(expected_hash, h, next[1])
                  ELSE IF ~check_hash(h, d)
                       THEN InvalidHash(h, next[1])
                       ELSE try_fold_keeps_next(Tail(blocks), next, d)

RECURSIVE try_fold_checks_cached(_, _, _)
try_fold_checks_cached(blocks, next, d) ==
    IF blocks = <<>> THEN Ok
    ELSE LET prev == Head(blocks) IN
         IF next = None \/ next[1].prev = None THEN Panic
         ELSE LET expected_hash == next[1].prev[1][2]
                  h == hash_block(prev)
              IN  IF ~check_hash(expected_hash, d)
                  THEN InvalidHash(expected_hash, next[1])
                  ELSE IF h # expected_hash
                       THEN HashMismatch(expected_hash, h, next[1])
                       ELSE try_fold_checks_cached(Tail(blocks), Some(prev), d)

RECURSIVE try_fold_last_error(_, _, _)
try_fold_last_error(blocks, next, d) ==
    IF blocks = <<>> THEN Ok
    ELSE LET prev == Head(blocks) IN
         IF next = None \/ next[1].prev = None THEN Panic
         ELSE LET expected_hash == next[1].prev[1][2]
                  h == hash_block(prev)
                  deeper == try_fold_last_error(Tail(blocks), Some(prev), d)
              IN  IF deeper # Ok THEN deeper
                  ELSE IF h # expected_hash
                       THEN HashMismatch(expected_hash, h, next[1])
                       ELSE IF ~check_hash(h, d)
                            THEN InvalidHash(h, next[1])
                            ELSE Ok

RECURSIVE try_fold_difficulty_first(_, _, _)
try_fold_difficulty_first(blocks, next, d) ==
    IF blocks = <<>> THEN Ok
    ELSE LET prev == Head(blocks) IN
         IF next = None \/ next[1].prev = None THEN Panic
         ELSE LET expected_hash == next[1].prev[1][2]
                  h == hash_block(prev)
              IN  IF ~check_hash(h, d)
                  THEN InvalidHash(h, next[1])
                  ELSE IF h # expected_hash
                       THEN HashMismatch(expected_hash, h, next[1])
                       ELSE try_fold_difficulty_first(Tail(blocks), Some(prev), d)

RECURSIVE try_fold_context_prev(_, _, _)
try_fold_context_prev(blocks, next, d) ==
    IF blocks = <<>> THEN Ok
    ELSE LET prev == Head(blocks) IN
         IF next = None \/ next[1].prev = None THEN Panic
         ELSE LET expected_hash == next[1].prev[1][2]
                  h == hash_block(prev)
              IN  IF h # expected_hash
                  THEN HashMismatch(expected_hash, h, prev)
                  ELSE IF ~check_hash(h, d)
                       THEN InvalidHash(h, prev)
                       ELSE try_fold_context_prev(Tail(blocks), Some(prev), d)

RECURSIVE try_fold_no_difficulty(_, _, _)
try_fold_no_difficulty(blocks, next, d) ==
    IF blocks = <<>> THEN Ok
    ELSE LET prev == Head(blocks) IN
         IF next = None \/ next[1].prev = None THEN Panic
         ELSE LET expected_hash == next[1].prev[1][2]
                  h == hash_block(prev)
              IN  IF h # expected_hash
                  THEN HashMismatch(expected_hash, h, next[1])
                  ELSE try_fold_no_difficulty(Tail(blocks), Some(prev), d)

RECURSIVE try_fold(_, _, _)
try_fold(blocks, next, d) ==
    IF blocks = <<>> THEN Ok
    ELSE LET prev == Head(blocks) IN
         IF next = None \/ next[1].prev = None THEN Panic
         ELSE LET expected_hash == next[1].prev[1][2]
                  h == hash_block(prev)
              IN  IF h # expected_hash
                  THEN HashMismatch(expected_hash, h, next[1])
                  ELSE IF ~check_hash(h, d)
                       THEN InvalidHash(h, next[1])
                       ELSE try_fold(Tail(blocks), Some(prev), d)

verify_chain_no_first(t, d) == try_fold(iter(t), None, d)

verify_chain_checks_tail(t, d) ==
    LET blocks == iter(t)
        first == IF blocks = <<>> THEN None ELSE Some(Head(blocks))
        rest == IF blocks = <<>> THEN <<>> ELSE Tail(blocks)
    IN  IF IsSome(first) /\ ~check_hash(hash_block(first[1]), d)
        THEN InvalidHash(hash_block(first[1]), first[1])
        ELSE try_fold(rest, first, d)

verify_chain(t, d) ==
    LET blocks == iter(t)
        first == IF blocks = <<>> THEN None ELSE Some(Head(blocks))
        rest == IF blocks = <<>> THEN <<>> ELSE Tail(blocks)
    IN  try_fold(rest, first, d)

----------------------------------------------------------------------------
(* add *)

add_prev_stale(t) ==
    IF t = None THEN None
    ELSE Some(<<t[1], hash_block([t[1] EXCEPT !.nonce = 0])>>)

add_prev_resets_nonce(t) ==
    IF t = None THEN None
    ELSE Some(<<[t[1] EXCEPT !.nonce = 0], hash_block(t[1])>>)

add_prev(t) ==
    IF t = None THEN None ELSE Some(<<t[1], hash_block(t[1])>>)

NoWrite == [field |-> "none"]

TypeOK ==
    /\ difficulty \in 0 .. MaxDifficulty
    /\ status \in {"running", "overflow_panic", "mining_forever"}
    /\ Len(iter(tail)) <= MaxBlocks
    /\ Len(added) <= MaxBlocks
    /\ tampers \in 0 .. MaxTampers

Init ==
    /\ tail = None
    /\ difficulty \in 0 .. MaxDifficulty
    /\ status = "running"
    /\ result = NoResult
    /\ added = <<>>
    /\ linked = None
    /\ tampers = 0
    /\ last = NoWrite

\* add detaches the tail, caches its hash in the new block's link, mines the
\* new block and installs it.  When no nonce passes check_hash the increment
\* at the last nonce overflows: a build with overflow checks panics there,
\* one without wraps to nonce 0 and searches forever; either way add does
\* not return and the tail stays taken.
Add(transaction, now) ==
    /\ status = "running"
    /\ Len(iter(tail)) < MaxBlocks
    /\ LET prev == add_prev(tail)
           new_block == NewBlock(prev, now, transaction)
           mined == mine_block(new_block, difficulty)
       IN  /\ added' = Append(added, [transaction |-> transaction,
                                      timestamp |-> now])
           /\ linked' = prev
           /\ IF mined.outcome = "mined"
              THEN /\ tail' = Some(mined.block)
                   /\ status' = "running"
              ELSE /\ tail' = None
                   /\ status' \in {"overflow_panic", "mining_forever"}
    /\ result' = NoResult
    /\ UNCHANGED <<difficulty, tampers, last>>

Verify_takes_tail ==
    /\ status = "running"
    /\ result' = verify_chain(tail, difficulty)
    /\ tail' = None
    /\ UNCHANGED <<difficulty, status, added, linked, tampers, last>>

Verify ==
    /\ status = "running"
    /\ result' = verify_chain(tail, difficulty)
    /\ UNCHANGED <<tail, difficulty, status, added, linked, tampers, last>>

Next ==
    \/ \E transaction \in Transactions, now \in Timestamps : Add(transaction, now)
    \/ Verify

Spec == Init /\ [][Next]_vars

----------------------------------------------------------------------------
(* In-place writes to the fields of a block of the chain, as the statement *)
(* commented out in main does to the cached hash held by the tail.  Depth  *)
(* 0 is the tail, depth 1 its predecessor, and so on.                      *)

Depths(t) == 0 .. (Len(iter(t)) - 1)
BlockAt(t, k) == iter(t)[k + 1]

Field(block, field) ==
    IF field = "hash" THEN block.prev[1][2] ELSE block[field]

RECURSIVE Rewrite(_, _, _, _)
Rewrite(block, k, field, v) ==
    IF k = 0
    THEN IF field = "hash"
         THEN [block EXCEPT !.prev = Some(<<block.prev[1][1], v>>)]
         ELSE [block EXCEPT ![field] = v]
    ELSE [block EXCEPT !.prev =
              Some(<<Rewrite(block.prev[1][1], k - 1, field, v), block.prev[1][2]>>)]

AllZeros == [i \in 1 .. DigestChars |-> "0"] \o <<Pad>>
ForgedHashes(block) ==
    {hash_block(block.prev[1][1]), encode(0), AllZeros}

CanWrite == status = "running" /\ tampers < MaxTampers

Write(k, field, v) ==
    /\ tail' = Some(Rewrite(tail[1], k, field, v))
    /\ tampers' = tampers + 1
    /\ last' = [field |-> field, depth |-> k, length |-> Len(iter(tail)),
                old |-> Field(BlockAt(tail, k), field)]
    /\ result' = NoResult
    /\ UNCHANGED <<difficulty, status, added, linked>>

TamperTransaction ==
    /\ CanWrite
    /\ \E k \in Depths(tail) :
        LET block == BlockAt(tail, k) IN
        \E v \in Transactions \ {block.transaction} :
            Write(k, "transaction", v)

TamperTimestamp ==
    /\ CanWrite
    /\ \E k \in Depths(tail) :
        LET block == BlockAt(tail, k) IN
        \E v \in Timestamps \ {block.timestamp} :
            Write(k, "timestamp", v)

TamperNonce ==
    /\ CanWrite
    /\ \E k \in Depths(tail) :
        LET block == BlockAt(tail, k) IN
        \E v \in {0, (block.nonce + 1) % NonceLimit} \ {block.nonce} :
            Write(k, "nonce", v)

TamperCachedHash ==
    /\ CanWrite
    /\ \E k \in Depths(tail) :
        LET block == BlockAt(tail, k) IN
        /\ IsSome(block.prev)
        /\ \E v \in ForgedHashes(block) \ {block.prev[1][2]} :
               Write(k, "hash", v)

\* a chain that is written to is built from one payload, the clock standing
\* still; the writes bring in the other payloads and timestamps
Epoch == CHOOSE t \in Timestamps : \A u \in Timestamps : t <= u
Payload == CHOOSE t \in Transactions : \A u \in Transactions : TxBytes(t)[1] <= TxBytes(u)[1]

NextTamper ==
    \/ Add(Payload, Epoch)
    \/ Verify
    \/ TamperTransaction
    \/ TamperTimestamp
    \/ TamperNonce
    \/ TamperCachedHash

SpecTamper == Init /\ [][NextTamper]_vars

----------------------------------------------------------------------------
(* Properties *)

Blocks == iter(tail)
Length == Len(Blocks)
Running == status = "running"
Verified == Running /\ result # NoResult
Mined(block) == check_hash(hash_block(block), difficulty)

\* C1: on a chain built by add calls alone, whatever the difficulty and the
\* number of calls (zero and one included), verify_chain returns success.
C1_VerifyAfterAdds == Verified => result = Ok

C1_Witness ==
    /\ Verified /\ result = Ok
    /\ Length = MaxBlocks /\ difficulty >= 1
    /\ \E i \in 1 .. Length : Blocks[i].nonce > 0

\* C4: after n add calls the chain holds exactly n blocks, and the hash of
\* every block of it satisfies the difficulty predicate.
C4_LengthAndDifficulty ==
    Running =>
        /\ Length = Len(added)
        /\ \A i \in 1 .. Length : Mined(Blocks[i])

C4_Witness ==
    /\ Running /\ Length = MaxBlocks /\ difficulty = DigestChars
    /\ Len(added) = MaxBlocks

\* C5: every add call returns: mine_block never runs out of nonces, so the
\* process never stops inside it.
C5_AddTerminates == Running

\* C6: traversal from the tail yields the payloads of the add calls in
\* reverse order, one block per call, and only the last block yielded (the
\* genesis block) has no predecessor.
C6_ReverseInsertionOrder ==
    Running =>
        /\ Length = Len(added)
        /\ \A i \in 1 .. Length :
              /\ Blocks[i].transaction = added[Len(added) + 1 - i].transaction
              /\ (Blocks[i].prev = None) <=> (i = Length)

C6_Witness ==
    /\ Running /\ Length = MaxBlocks
    /\ Blocks[1].transaction = "b"
    /\ Blocks[Length].transaction = "a"

\* C9: in a chain built by add calls alone, the hash recomputed from every
\* non-tail block equals the hash cached in its successor's link.
C9_CachedHashIsCurrent ==
    Running =>
        \A i \in 1 .. (Length - 1) :
            hash_block(Blocks[i + 1]) = Blocks[i].prev[1][2]

C9_Witness ==
    /\ Running /\ Length = MaxBlocks /\ difficulty >= 1
    /\ \A i \in 2 .. Length : Blocks[i].nonce > 0

\* C10: the block add installs carries the smallest nonce whose hash
\* satisfies the difficulty predicate, and its predecessor link, timestamp
\* and transaction are those it was constructed with.
C10_SmallestNonce ==
    (Running /\ Length > 0) =>
        LET block == tail[1]
            call == added[Len(added)]
        IN  /\ Mined(block)
            /\ \A n \in 0 .. (block.nonce - 1) : ~Mined([block EXCEPT !.nonce = n])
            /\ block.prev = linked
            /\ block.timestamp = call.timestamp
            /\ block.transaction = call.transaction

C10_Witness ==
    /\ Running /\ Length >= 2 /\ difficulty >= 1
    /\ tail[1].nonce >= 2

----------------------------------------------------------------------------
(* Properties of chains written to in place *)

LastTamper == last
Before == Some(Rewrite(tail[1], last.depth, last.field, last.old))
ContentFields == {"transaction", "timestamp", "nonce"}

\* verify_chain was called right after the last write, with no add between
JustTampered ==
    /\ Verified /\ tampers > 0
    /\ Length = last.length

\* exactly one write, to a chain built by add calls alone
SingleTamper == JustTampered /\ tampers = 1

\* the block written to hashes differently than before the write
Rehashed ==
    hash_block(BlockAt(tail, LastTamper.depth)) #
        hash_block(BlockAt(Before, LastTamper.depth))

\* the error was raised by the pair whose predecessor is the block at depth
\* k: it reports that block's recomputed hash, in the context of its successor
References(r, k) ==
    /\ r.h = hash_block(BlockAt(tail, k))
    /\ r.context = Some(DebugBlock(BlockAt(tail, k - 1)))

\* C2 as stated: after one write to the transaction, timestamp or nonce of a
\* non-tail block, or to the cached hash in the link above a block, with no
\* hash collision, verify_chain yields a HashMismatch referencing that block.
C2_AsStated ==
    (/\ SingleTamper /\ Length >= 2 /\ Rehashed
     /\ (LastTamper.field = "hash" \/ LastTamper.depth >= 1))
    => /\ result.kind = "HashMismatch"
       /\ References(result, IF LastTamper.field = "hash"
                              THEN LastTamper.depth + 1
                              ELSE LastTamper.depth)

\* C2 amended: a write to the transaction, timestamp or nonce of a non-tail
\* block yields a HashMismatch referencing that block; a write to the cached
\* hash in the link above a block yields a HashMismatch referencing that
\* block when the tail holds the link, and otherwise one referencing the
\* block that holds the link, whose own hash covers the cached value.
C2_TamperDetected ==
    (/\ SingleTamper /\ Length >= 2
     /\ \/ LastTamper.field = "hash" /\ LastTamper.depth = 0
        \/ LastTamper.depth >= 1 /\ Rehashed)
    => /\ result.kind = "HashMismatch"
       /\ References(result, IF LastTamper.depth = 0 THEN 1 ELSE LastTamper.depth)

C2_Witness ==
    /\ SingleTamper /\ Length = MaxBlocks /\ Rehashed
    /\ LastTamper.field = "hash" /\ LastTamper.depth = 1
    /\ result.kind = "HashMismatch"
    /\ References(result, 1)
    /\ ~References(result, 2)

\* the one write replaced a cached hash by a wrong value that violates the
\* difficulty predicate, in a chain mined at a positive difficulty
ForgedInvalid ==
    /\ SingleTamper /\ difficulty > 0
    /\ LastTamper.field = "hash"
    /\ ~check_hash(BlockAt(tail, LastTamper.depth).prev[1][2], difficulty)

\* C3 as stated: verify_chain then yields an InvalidHash error.
C3_AsStated == ForgedInvalid => result.kind = "InvalidHash"

\* C3 amended: verify_chain then yields a HashMismatch error, the equality
\* test coming first; it does not yield InvalidHash.
C3_ForgedHashMismatch == ForgedInvalid => result.kind = "HashMismatch"

C3_Witness ==
    /\ ForgedInvalid /\ result.kind = "HashMismatch"
    /\ LastTamper.depth = 0
    /\ ~check_hash(result.expected, difficulty)
    /\ check_hash(result.h, difficulty)

\* the last write changed the transaction, timestamp or nonce of the tail
TailTampered ==
    /\ JustTampered
    /\ LastTamper.depth = 0
    /\ LastTamper.field \in ContentFields

\* what verify_chain decided, without the context attached to the error
Outcome(r) ==
    IF r.kind = "HashMismatch" THEN <<r.kind, r.expected, r.h>>
    ELSE IF r.kind = "InvalidHash" THEN <<r.kind, r.h>>
    ELSE <<r.kind>>

\* C7 as stated: a write to the tail's transaction, timestamp or nonce does
\* not change the result of verify_chain.
C7_AsStated == TailTampered => result = verify_chain(Before, difficulty)

\* C7 amended: such a write changes neither whether verify_chain succeeds
\* nor the kind of error and the hashes it reports; only the context of the
\* error, which renders the tail, can differ.
C7_TailNotChecked ==
    TailTampered => Outcome(result) = Outcome(verify_chain(Before, difficulty))

C7_Witness ==
    /\ TailTampered /\ Length >= 2 /\ difficulty >= 1
    /\ ~Mined(tail[1])
    /\ result = Ok

\* C8: verify_chain returns success or an error value on every chain, written
\* to in place or not: the unwrap in the fold always finds a cached hash.
C8_VerifyNeverPanics == Verified => result.kind # "Panic"

C8_Witness ==
    /\ Verified /\ tampers = MaxTampers /\ Length = MaxBlocks
    /\ result.kind \in {"HashMismatch", "InvalidHash"}
    /\ LastTamper.field = "hash"

----------------------------------------------------------------------------
(* Properties of add as a step *)

\* the step is an add call that returned
AddReturned == Len(added') = Len(added) + 1 /\ status' = "running"

\* C11: an add call leaves every block that was in the chain as it was (the
\* blocks yielded after the new tail are the blocks yielded before, in the
\* same order and with the same fields and cached hashes), the previous tail
\* is the new tail's predecessor, and the difficulty is unchanged.
C11_AddKeepsBlocks ==
    [][AddReturned =>
        /\ iter(tail') = <<tail'[1]>> \o iter(tail)
        /\ (tail # None => /\ IsSome(tail'[1].prev)
                            /\ tail'[1].prev[1][1] = tail[1])
        /\ (tail = None => tail'[1].prev = None)
        /\ difficulty' = difficulty]_vars

C11_Witness ==
    /\ Running /\ Length = MaxBlocks /\ difficulty >= 1
    /\ IsSome(linked) /\ linked[1][1].nonce > 0
    /\ Blocks[2] = linked[1][1]

----------------------------------------------------------------------------
(* Properties of verify_chain pair by pair.  Pair k is the block at depth  *)
(* k, whose hash is recomputed, and its successor at depth k - 1, which    *)
(* holds the cached hash.                                                    *)

Pairs == 1 .. (Length - 1)
Recomputed(k) == hash_block(Blocks[k + 1])
Cached(k) == Blocks[k].prev[1][2]
Successor(k) == Blocks[k]
Faulty(k) ==
    \/ Recomputed(k) # Cached(k)
    \/ ~check_hash(Recomputed(k), difficulty)
FaultyPairs == {k \in Pairs : Faulty(k)}
FirstFault == CHOOSE k \in FaultyPairs : \A j \in FaultyPairs : k <= j
Failed == Verified /\ FaultyPairs # {}

\* C12: when some pairs are faulty, verify_chain returns the error of the
\* faulty pair closest to the tail: it reports that pair's recomputed hash
\* (and cached hash), whatever the pairs further towards genesis hold.
C12_FirstFailureWins ==
    Failed =>
        /\ result.kind \in {"HashMismatch", "InvalidHash"}
        /\ result.h = Recomputed(FirstFault)
        /\ (result.kind = "HashMismatch" => result.expected = Cached(FirstFault))

C12_Witness ==
    /\ Failed /\ Cardinality(FaultyPairs) >= 2
    /\ \A k \in FaultyPairs \ {FirstFault} : Recomputed(k) # Recomputed(FirstFault)
    /\ result.h = Recomputed(FirstFault)

\* C13: a pair whose recomputed hash differs from the cached hash yields
\* HashMismatch whether or not either hash satisfies the difficulty
\* predicate; InvalidHash is yielded only when the two are equal and the
\* hash fails the difficulty predicate.
C13_EqualityBeforeDifficulty ==
    Failed =>
        LET k == FirstFault IN
        /\ (Recomputed(k) # Cached(k) => result.kind = "HashMismatch")
        /\ (result.kind = "InvalidHash" =>
               /\ Recomputed(k) = Cached(k)
               /\ ~check_hash(Recomputed(k), difficulty))

C13_Witness ==
    /\ Failed /\ difficulty >= 1
    /\ Recomputed(FirstFault) # Cached(FirstFault)
    /\ ~check_hash(Recomputed(FirstFault), difficulty)
    /\ check_hash(Cached(FirstFault), difficulty)
    /\ result.kind = "HashMismatch"

C13_WitnessInvalid ==
    /\ Failed /\ result.kind = "InvalidHash"
    /\ Recomputed(FirstFault) = Cached(FirstFault)

\* C14: the context of the error names the successor of the failing pair,
\* the block that holds the cached hash; in a chain of three blocks whose
\* middle block's transaction was overwritten, the error is a HashMismatch
\* whose context names the tail.
MiddleOverwritten ==
    /\ SingleTamper /\ Length = 3
    /\ LastTamper.field = "transaction" /\ LastTamper.depth = 1

C14_ContextNamesSuccessor ==
    /\ Failed => result.context = Some(DebugBlock(Successor(FirstFault)))
    /\ MiddleOverwritten =>
           /\ result.kind = "HashMismatch"
           /\ result.context = Some(DebugBlock(tail[1]))

C14_Witness ==
    /\ MiddleOverwritten
    /\ result.kind = "HashMismatch"
    /\ result.context = Some(DebugBlock(tail[1]))
    /\ DebugBlock(tail[1]) # DebugBlock(Blocks[2])

\* the first d characters of the hash exist and are all the character 0
ZeroPrefix(hash, d) == \A i \in 1 .. d : i <= Len(hash) /\ hash[i] = "0"

\* C15: a hash satisfies the difficulty predicate for d exactly when its
\* first d characters are all 0; at difficulty 0 every hash satisfies it, so
\* every block add installs there has nonce 0, and verify_chain never
\* yields InvalidHash there.
C15_DifficultyPredicate ==
    /\ \A digest \in 0 .. (DigestSpace - 1) : \A d \in 0 .. (DigestChars + 2) :
           /\ check_hash(encode(digest), d) <=> ZeroPrefix(encode(digest), d)
           /\ check_hash(encode(digest), 0)
    /\ (Running /\ difficulty = 0 /\ tampers = 0) =>
           \A i \in 1 .. Length : Blocks[i].nonce = 0
    /\ (Verified /\ difficulty = 0) => result.kind # "InvalidHash"

C15_Witness ==
    /\ Verified /\ difficulty = 0 /\ Length = MaxBlocks
    /\ tampers = MaxTampers
    /\ \E i \in 1 .. Length : Blocks[i].nonce # 0
    /\ result.kind = "HashMismatch"

\* C16: verify_chain returns success exactly when, for every pair, the hash
\* recomputed from the predecessor equals the hash cached by the successor
\* and satisfies the difficulty predicate.
C16_VerifyExact == Verified => (result = Ok <=> FaultyPairs = {})

C16_Witness ==
    /\ Verified /\ result = Ok
    /\ tampers = MaxTampers /\ Length = MaxBlocks /\ difficulty >= 1
    /\ LastTamper.field = "hash"

C16_WitnessFault ==
    /\ Verified /\ result.kind = "InvalidHash"
    /\ \A k \in Pairs : Recomputed(k) = Cached(k)

\* C17: a verify_chain call changes neither the tail (and with it no block,
\* field or cached hash), nor the difficulty, nor whether the process runs,
\* and a call that follows another returns the same result.
C17_VerifyReadOnly ==
    [][result' # NoResult =>
        /\ tail' = tail
        /\ difficulty' = difficulty
        /\ status' = status
        /\ (result # NoResult => result' = result)
        /\ verify_chain(tail', difficulty') = result']_vars

C17_Witness ==
    /\ Verified /\ Length = MaxBlocks /\ tampers >= 1
    /\ result.kind = "InvalidHash"
    /\ verify_chain(tail, difficulty) = result

====
